---- MODULE Spec2Model ----
(***************************************************************************)
(* Conversion between arrow2 fields (Field / DataType) and the canonical   *)
(* schema model (GenericField / GenericDataType) of serde_arrow, as        *)
(* implemented in src/serde_arrow/src/arrow2_impl/schema.rs.               *)
(*                                                                         *)
(* Values:                                                                 *)
(*   Option<T>      None == <<>>, Some(v) == <<v>>                         *)
(*   Result<T>      [ok |-> TRUE, val, calls] or [ok |-> FALSE, err, calls]*)
(*                  calls counts the try_from invocations that were made   *)
(*   DataType       [DataType |-> "Int32"], [DataType |-> "List", field],  *)
(*                  ...                                                    *)
(*   Field          [name, data_type, is_nullable, metadata]               *)
(*   GenericDataType [GenericDataType |-> "I32"], ...                      *)
(*   GenericField   [data_type, name, strategy, children, nullable]        *)
(***************************************************************************)
EXTENDS Integers, Sequences, FiniteSets, TLC

VARIABLES input, ops, hist

vars == <<input, ops, hist>>

-----------------------------------------------------------------------------
(* Option and Result *)

None == <<>>

Some(v) == <<v>>

IsSome(o) == Len(o) = 1

Unwrap(o) == o[1]

Ok(v, n) == [ok |-> TRUE, val |-> v, calls |-> n]

Err(e, n) == [ok |-> FALSE, err |-> e, calls |-> n]

\* `error!(...)`: the formatted message and the value formatted into it
Error(msg, detail) == [msg |-> msg, detail |-> detail]

-----------------------------------------------------------------------------
(* Integer widths *)

U8_MAX == 255

I8_MAX == 127

\* `x as u8`
AsU8(x) == x % 256

\* `x as i8`
AsI8(x) ==
    LET m == x % 256 IN IF m > 127 THEN m - 256 ELSE m

-----------------------------------------------------------------------------
(* Strategy and field metadata *)

STRATEGY_KEY == "SERDE_ARROW:strategy"

Strategy ==
    { [Strategy |-> "InconsistentTypes"], [Strategy |-> "UtcStrAsDate64"],
      [Strategy |-> "NaiveStrAsDate64"], [Strategy |-> "TupleAsStruct"],
      [Strategy |-> "MapAsStruct"] }

\* `impl FromStr for Strategy`
StrategyFromStr(s) ==
    CASE s = "InconsistentTypes" -> Ok([Strategy |-> "InconsistentTypes"], 0)
      [] s = "UtcStrAsDate64" -> Ok([Strategy |-> "UtcStrAsDate64"], 0)
      [] s = "NaiveStrAsDate64" -> Ok([Strategy |-> "NaiveStrAsDate64"], 0)
      [] s = "TupleAsStruct" -> Ok([Strategy |-> "TupleAsStruct"], 0)
      [] s = "MapAsStruct" -> Ok([Strategy |-> "MapAsStruct"], 0)
      [] OTHER -> Err(Error("Unknown strategy", s), 0)

\* `impl Display for Strategy`
StrategyToString(strategy) ==
    CASE strategy = [Strategy |-> "InconsistentTypes"] -> "InconsistentTypes"
      [] strategy = [Strategy |-> "UtcStrAsDate64"] -> "UtcStrAsDate64"
      [] strategy = [Strategy |-> "NaiveStrAsDate64"] -> "NaiveStrAsDate64"
      [] strategy = [Strategy |-> "TupleAsStruct"] -> "TupleAsStruct"
      [] strategy = [Strategy |-> "MapAsStruct"] -> "MapAsStruct"

EmptyMetadata == [k \in {} |-> ""]

\* `impl From<Strategy> for HashMap<String, String>`
StrategyIntoMetadata(strategy) == [k \in {STRATEGY_KEY} |-> StrategyToString(strategy)]

\* `field.metadata.get(key)`
MetadataGet(metadata, key) ==
    IF key \in DOMAIN metadata THEN Some(metadata[key]) ELSE None

\* `Field::new(name, data_type, is_nullable)`
FieldNew(name, data_type, is_nullable) ==
    [name |-> name, data_type |-> data_type, is_nullable |-> is_nullable,
     metadata |-> EmptyMetadata]

-----------------------------------------------------------------------------
(* Collecting the conversions of a sequence of fields *)

\* index of the first failed conversion, 0 when all succeeded
FirstErr(results) ==
    IF \A i \in 1..Len(results) : results[i].ok THEN 0
    ELSE CHOOSE i \in 1..Len(results) :
            /\ ~results[i].ok
            /\ \A j \in 1..(i - 1) : results[j].ok

RECURSIVE SumCalls(_, _)
SumCalls(results, n) ==
    IF n = 0 THEN 0 ELSE SumCalls(results, n - 1) + results[n].calls

\* Collect with every conversion made and the last failure returned
CollectLastError(results) ==
    LET failed == {i \in 1..Len(results) : ~results[i].ok} IN
    IF failed = {}
      THEN Ok([j \in 1..Len(results) |-> results[j].val], SumCalls(results, Len(results)))
      ELSE Err(results[CHOOSE i \in failed : \A k \in failed : k <= i].err,
               SumCalls(results, Len(results)))

\* `for field in fields { children.push(field.try_into()?) }` and
\* `iter().map(try_from).collect::<Result<_>>()`: results[i] is what the i-th
\* conversion returns when it is made; conversion stops at the first failure
Collect(results) ==
    LET i == FirstErr(results) IN
    IF i = 0
      THEN Ok([j \in 1..Len(results) |-> results[j].val], SumCalls(results, Len(results)))
      ELSE Err(results[i].err, SumCalls(results, i))

-----------------------------------------------------------------------------
(* GenericField::validate *)

IntegerKinds == {"I8", "I16", "I32", "I64", "U8", "U16", "U32", "U64"}

\* the children arity table: does n children fit the data type
ArityOk(kind, n) ==
    CASE kind \in {"List", "LargeList", "Map"} -> n = 1
      [] kind = "Dictionary" -> n = 2
      [] kind \in {"Struct", "Union"} -> TRUE
      [] OTHER -> n = 0

RECURSIVE validate(_)
validate(field) ==
    LET kind == field.data_type.GenericDataType
        children == Collect([i \in 1..Len(field.children) |-> validate(field.children[i])])
    IN  IF ~ArityOk(kind, Len(field.children))
          THEN Err(Error("invalid number of children", field.name), 0)
        ELSE IF ~children.ok
          THEN Err(children.err, 0)
        ELSE IF kind = "Dictionary"
                /\ field.children[1].data_type.GenericDataType \notin IntegerKinds
          THEN Err(Error("invalid dictionary key type", field.name), 0)
        ELSE IF kind = "Decimal128"
                /\ ~(/\ field.data_type.precision \in 0..255
                     /\ field.data_type.scale \in (-128)..127)
          THEN Err(Error("invalid decimal parameters", field.name), 0)
        ELSE IF kind = "Time64"
                /\ field.data_type.unit.GenericTimeUnit \notin {"Microsecond", "Nanosecond"}
          THEN Err(Error("invalid time unit", field.name), 0)
        ELSE Ok(TRUE, 0)

-----------------------------------------------------------------------------
(* impl TryFrom<&Field> for GenericField *)

Generic(kind) == [GenericDataType |-> kind]

\* what a match arm yields: the data type and the children pushed so far
Arm(data_type, children) == [data_type |-> data_type, children |-> children]

\* the arms that map a parameterless DataType to its GenericDataType
PrimitiveToGeneric ==
    [Boolean |-> "Bool", Null |-> "Null", Int8 |-> "I8", Int16 |-> "I16",
     Int32 |-> "I32", Int64 |-> "I64", UInt8 |-> "U8", UInt16 |-> "U16",
     UInt32 |-> "U32", UInt64 |-> "U64", Float16 |-> "F16", Float32 |-> "F32",
     Float64 |-> "F64", Utf8 |-> "Utf8", LargeUtf8 |-> "LargeUtf8",
     Date32 |-> "Date32", Date64 |-> "Date64"]

\* StrategyFromMetadata with a string that does not parse taken as no strategy
StrategyFromMetadataLenient(metadata) ==
    LET strategy_str == MetadataGet(metadata, STRATEGY_KEY) IN
    IF IsSome(strategy_str) /\ StrategyFromStr(Unwrap(strategy_str)).ok
      THEN Ok(Some(StrategyFromStr(Unwrap(strategy_str)).val), 0)
      ELSE Ok(None, 0)

\* `match field.metadata.get(STRATEGY_KEY)`
StrategyFromMetadata(metadata) ==
    LET strategy_str == MetadataGet(metadata, STRATEGY_KEY) IN
    IF IsSome(strategy_str)
      THEN LET parsed == StrategyFromStr(Unwrap(strategy_str)) IN
           IF parsed.ok THEN Ok(Some(parsed.val), 0) ELSE parsed
      ELSE Ok(None, 0)

\* DecimalToGeneric without the check of the scale
DecimalToGenericUncheckedScale(precision, scale) ==
    IF precision > U8_MAX
      THEN Err(Error("cannot represent precision / scale of the decimal", ""), 0)
      ELSE Ok(Arm([GenericDataType |-> "Decimal128", precision |-> AsU8(precision),
                   scale |-> AsI8(scale)], <<>>), 0)

\* the `DataType::Decimal(precision, scale)` arm
DecimalToGeneric(precision, scale) ==
    IF precision > U8_MAX \/ scale > I8_MAX
      THEN Err(Error("cannot represent precision / scale of the decimal", ""), 0)
      ELSE Ok(Arm([GenericDataType |-> "Decimal128", precision |-> AsU8(precision),
                   scale |-> AsI8(scale)], <<>>), 0)

\* the `DataType::Time64(unit)` arms
Time64ToGeneric(unit) ==
    CASE unit = [TimeUnit |-> "Microsecond"] ->
            Ok(Arm([GenericDataType |-> "Time64",
                    unit |-> [GenericTimeUnit |-> "Microsecond"]], <<>>), 0)
      [] unit = [TimeUnit |-> "Nanosecond"] ->
            Ok(Arm([GenericDataType |-> "Time64",
                    unit |-> [GenericTimeUnit |-> "Nanosecond"]], <<>>), 0)
      [] OTHER -> Err(Error("Invalid time unit for Time64", unit.TimeUnit), 0)

\* the `DataType::Timestamp(unit, tz)` arms
TimestampToGeneric(unit, tz) ==
    LET generic_unit ==
            CASE unit = [TimeUnit |-> "Second"] -> [GenericTimeUnit |-> "Second"]
              [] unit = [TimeUnit |-> "Millisecond"] -> [GenericTimeUnit |-> "Millisecond"]
              [] unit = [TimeUnit |-> "Microsecond"] -> [GenericTimeUnit |-> "Microsecond"]
              [] unit = [TimeUnit |-> "Nanosecond"] -> [GenericTimeUnit |-> "Nanosecond"]
    IN  Ok(Arm([GenericDataType |-> "Timestamp", unit |-> generic_unit, tz |-> tz], <<>>), 0)

\* the `match int_type` of the Dictionary arm
IntegerTypeToDataType(int_type) ==
    CASE int_type = [IntegerType |-> "Int8"] -> [DataType |-> "Int8"]
      [] int_type = [IntegerType |-> "Int16"] -> [DataType |-> "Int16"]
      [] int_type = [IntegerType |-> "Int32"] -> [DataType |-> "Int32"]
      [] int_type = [IntegerType |-> "Int64"] -> [DataType |-> "Int64"]
      [] int_type = [IntegerType |-> "UInt8"] -> [DataType |-> "UInt8"]
      [] int_type = [IntegerType |-> "UInt16"] -> [DataType |-> "UInt16"]
      [] int_type = [IntegerType |-> "UInt32"] -> [DataType |-> "UInt32"]
      [] int_type = [IntegerType |-> "UInt64"] -> [DataType |-> "UInt64"]

RECURSIVE GenericFieldTryFrom(_)

\* the `DataType::List(field)` / `DataType::LargeList(field)` arms
ListToGeneric(kind, field) ==
    LET child == Collect(<<GenericFieldTryFrom(field)>>) IN
    IF child.ok THEN Ok(Arm(Generic(kind), child.val), child.calls) ELSE child

\* the `DataType::Struct(fields)` arm
StructToGeneric(fields) ==
    LET children == Collect([i \in 1..Len(fields) |-> GenericFieldTryFrom(fields[i])]) IN
    IF children.ok THEN Ok(Arm(Generic("Struct"), children.val), children.calls)
    ELSE children

\* the `DataType::Map(field, _)` arm
MapToGeneric(field, keys_sorted) ==
    LET child == Collect(<<GenericFieldTryFrom(field)>>) IN
    IF child.ok THEN Ok(Arm(Generic("Map"), child.val), child.calls) ELSE child

\* the `DataType::Union(fields, field_indices, mode)` arm
UnionToGeneric(fields, field_indices, mode) ==
    IF IsSome(field_indices)
      THEN Err(Error("Union types with explicit field indices are not supported", ""), 0)
    ELSE IF mode # [UnionMode |-> "Dense"]
      THEN Err(Error("Only dense unions are supported at the moment", ""), 0)
    ELSE LET children ==
                Collect([i \in 1..Len(fields) |-> GenericFieldTryFrom(fields[i])])
         IN  IF children.ok
               THEN Ok(Arm(Generic("Union"), children.val), children.calls)
               ELSE children

\* DictionaryToGeneric without the check of the sorted flag
DictionaryToGenericIgnoringSorted(int_type, data_type, sorted) ==
    LET key_type == IntegerTypeToDataType(int_type)
        children ==
            Collect(<<GenericFieldTryFrom(FieldNew("", key_type, FALSE)),
                      GenericFieldTryFrom(FieldNew("", data_type, FALSE))>>)
    IN  IF children.ok
          THEN Ok(Arm(Generic("Dictionary"), children.val), children.calls)
          ELSE children

\* the `DataType::Dictionary(int_type, data_type, sorted)` arm
DictionaryToGeneric(int_type, data_type, sorted) ==
    IF sorted
      THEN Err(Error("Sorted dictionary are not supported", ""), 0)
      ELSE LET key_type == IntegerTypeToDataType(int_type)
               children ==
                   Collect(<<GenericFieldTryFrom(FieldNew("", key_type, FALSE)),
                             GenericFieldTryFrom(FieldNew("", data_type, FALSE))>>)
           IN  IF children.ok
                 THEN Ok(Arm(Generic("Dictionary"), children.val), children.calls)
                 ELSE children

\* `match &field.data_type`
DataTypeToGeneric(dt) ==
    LET kind == dt.DataType IN
    CASE kind \in DOMAIN PrimitiveToGeneric ->
            Ok(Arm(Generic(PrimitiveToGeneric[kind]), <<>>), 0)
      [] kind = "Decimal" -> DecimalToGeneric(dt.precision, dt.scale)
      [] kind = "Time64" -> Time64ToGeneric(dt.unit)
      [] kind = "Timestamp" -> TimestampToGeneric(dt.unit, dt.tz)
      [] kind = "List" -> ListToGeneric("List", dt.field)
      [] kind = "LargeList" -> ListToGeneric("LargeList", dt.field)
      [] kind = "Struct" -> StructToGeneric(dt.fields)
      [] kind = "Map" -> MapToGeneric(dt.field, dt.keys_sorted)
      [] kind = "Union" -> UnionToGeneric(dt.fields, dt.field_indices, dt.mode)
      [] kind = "Dictionary" -> DictionaryToGeneric(dt.int_type, dt.data_type, dt.sorted)
      [] OTHER -> Err(Error("Cannot convert data type", kind), 0)

\* `GenericField::try_from(field: &Field)`
GenericFieldTryFrom(field) ==
    LET strategy == StrategyFromMetadata(field.metadata) IN
    IF ~strategy.ok THEN Err(strategy.err, 1)
    ELSE LET arm == DataTypeToGeneric(field.data_type) IN
         IF ~arm.ok THEN Err(arm.err, 1 + arm.calls)
         ELSE LET generic == [data_type |-> arm.val.data_type,
                              name |-> field.name,
                              strategy |-> strategy.val,
                              children |-> arm.val.children,
                              nullable |-> field.is_nullable]
                  valid == validate(generic)
              IN  IF valid.ok THEN Ok(generic, 1 + arm.calls)
                  ELSE Err(valid.err, 1 + arm.calls)

-----------------------------------------------------------------------------
(* impl TryFrom<&GenericField> for Field *)

\* the arms that map a parameterless GenericDataType to its DataType
PrimitiveToDataType ==
    [Null |-> "Null", Bool |-> "Boolean", I8 |-> "Int8", I16 |-> "Int16",
     I32 |-> "Int32", I64 |-> "Int64", U8 |-> "UInt8", U16 |-> "UInt16",
     U32 |-> "UInt32", U64 |-> "UInt64", F16 |-> "Float16", F32 |-> "Float32",
     F64 |-> "Float64", Date32 |-> "Date32", Date64 |-> "Date64",
     Utf8 |-> "Utf8", LargeUtf8 |-> "LargeUtf8"]

\* the `GenericDataType::Time64(unit)` arms
Time64ToDataType(unit) ==
    CASE unit = [GenericTimeUnit |-> "Microsecond"] ->
            Ok([DataType |-> "Time64", unit |-> [TimeUnit |-> "Microsecond"]], 0)
      [] unit = [GenericTimeUnit |-> "Nanosecond"] ->
            Ok([DataType |-> "Time64", unit |-> [TimeUnit |-> "Nanosecond"]], 0)
      [] OTHER -> Err(Error("Invalid time unit for Time64", unit.GenericTimeUnit), 0)

\* the `GenericDataType::Timestamp(unit, tz)` arms
TimestampToDataType(unit, tz) ==
    LET time_unit ==
            CASE unit = [GenericTimeUnit |-> "Second"] -> [TimeUnit |-> "Second"]
              [] unit = [GenericTimeUnit |-> "Millisecond"] -> [TimeUnit |-> "Millisecond"]
              [] unit = [GenericTimeUnit |-> "Microsecond"] -> [TimeUnit |-> "Microsecond"]
              [] unit = [GenericTimeUnit |-> "Nanosecond"] -> [TimeUnit |-> "Nanosecond"]
    IN  Ok([DataType |-> "Timestamp", unit |-> time_unit, tz |-> tz], 0)

\* the `GenericDataType::Decimal128(precision, scale)` arm; the casts to usize
\* are only reached with scale >= 0, where they keep the value
Decimal128ToDataType(precision, scale) ==
    IF scale < 0
      THEN Err(Error("arrow2 does not support decimals with negative scale", ""), 0)
      ELSE Ok([DataType |-> "Decimal", precision |-> precision, scale |-> scale], 0)

\* the `match &key_field.data_type` of the Dictionary arm
KeyTypeToIntegerType(data_type) ==
    LET kind == data_type.GenericDataType IN
    CASE kind = "U8" -> Ok([IntegerType |-> "UInt8"], 0)
      [] kind = "U16" -> Ok([IntegerType |-> "UInt16"], 0)
      [] kind = "U32" -> Ok([IntegerType |-> "UInt32"], 0)
      [] kind = "U64" -> Ok([IntegerType |-> "UInt64"], 0)
      [] kind = "I8" -> Ok([IntegerType |-> "Int8"], 0)
      [] kind = "I16" -> Ok([IntegerType |-> "Int16"], 0)
      [] kind = "I32" -> Ok([IntegerType |-> "Int32"], 0)
      [] kind = "I64" -> Ok([IntegerType |-> "Int64"], 0)
      [] OTHER -> Err(Error("Invalid key type for dictionary", ""), 0)

\* `field.metadata` after `if let Some(strategy) = value.strategy.as_ref()`
MetadataFromStrategy(strategy) ==
    IF IsSome(strategy) THEN StrategyIntoMetadata(Unwrap(strategy)) ELSE EmptyMetadata

RECURSIVE FieldTryFrom(_)

\* `value.children.first().ok_or_else(..)?.try_into()?` of the List, LargeList
\* and Map arms: the converted first child
FirstChildToField(children, msg) ==
    IF Len(children) = 0 THEN Err(Error(msg, ""), 0)
    ELSE Collect(<<FieldTryFrom(children[1])>>)

\* the `GenericDataType::List` / `GenericDataType::LargeList` arms
ListToDataType(kind, children) ==
    LET child == FirstChildToField(children, "List must a single child") IN
    IF child.ok THEN Ok([DataType |-> kind, field |-> child.val[1]], child.calls)
    ELSE child

\* the `GenericDataType::Struct` arm
StructToDataType(children) ==
    LET fields == Collect([i \in 1..Len(children) |-> FieldTryFrom(children[i])]) IN
    IF fields.ok THEN Ok([DataType |-> "Struct", fields |-> fields.val], fields.calls)
    ELSE fields

\* the `GenericDataType::Map` arm
MapToDataType(children) ==
    LET element_field == FirstChildToField(children, "Map must a two children") IN
    IF element_field.ok
      THEN Ok([DataType |-> "Map", field |-> element_field.val[1], keys_sorted |-> FALSE],
              element_field.calls)
      ELSE element_field

\* the `GenericDataType::Union` arm
UnionToDataType(children) ==
    LET fields == Collect([i \in 1..Len(children) |-> FieldTryFrom(children[i])]) IN
    IF fields.ok
      THEN Ok([DataType |-> "Union", fields |-> fields.val, field_indices |-> None,
               mode |-> [UnionMode |-> "Dense"]], fields.calls)
      ELSE fields

\* the `GenericDataType::Dictionary` arm
DictionaryToDataType(children) ==
    IF Len(children) = 0
      THEN Err(Error("Dictionary must a two children", ""), 0)
    ELSE IF Len(children) < 2
      THEN Err(Error("Dictionary must a two children", ""), 0)
    ELSE LET key_field == children[1]
             val_field == Collect(<<FieldTryFrom(children[2])>>)
             key_type == KeyTypeToIntegerType(key_field.data_type)
         IN  IF ~val_field.ok THEN val_field
             ELSE IF ~key_type.ok THEN Err(key_type.err, val_field.calls)
             ELSE Ok([DataType |-> "Dictionary", int_type |-> key_type.val,
                      data_type |-> val_field.val[1].data_type, sorted |-> FALSE],
                     val_field.calls)

\* `match &value.data_type`
GenericToDataType(value) ==
    LET kind == value.data_type.GenericDataType IN
    CASE kind \in DOMAIN PrimitiveToDataType ->
            Ok([DataType |-> PrimitiveToDataType[kind]], 0)
      [] kind = "Time64" -> Time64ToDataType(value.data_type.unit)
      [] kind = "Timestamp" -> TimestampToDataType(value.data_type.unit, value.data_type.tz)
      [] kind = "Decimal128" ->
            Decimal128ToDataType(value.data_type.precision, value.data_type.scale)
      [] kind = "List" -> ListToDataType("List", value.children)
      [] kind = "LargeList" -> ListToDataType("LargeList", value.children)
      [] kind = "Struct" -> StructToDataType(value.children)
      [] kind = "Map" -> MapToDataType(value.children)
      [] kind = "Union" -> UnionToDataType(value.children)
      [] kind = "Dictionary" -> DictionaryToDataType(value.children)

\* `Field::try_from(value: &GenericField)`
FieldTryFrom(value) ==
    LET data_type == GenericToDataType(value) IN
    IF ~data_type.ok THEN Err(data_type.err, 1 + data_type.calls)
    ELSE Ok([name |-> value.name,
             data_type |-> data_type.val,
             is_nullable |-> value.nullable,
             metadata |-> MetadataFromStrategy(value.strategy)],
            1 + data_type.calls)

-----------------------------------------------------------------------------
(* impl SerdeArrowSchema, impl SchemaLike for Vec<Field> *)

\* `SerdeArrowSchema::from_arrow2_fields(fields)`
from_arrow2_fields(fields) ==
    LET converted == Collect([i \in 1..Len(fields) |-> GenericFieldTryFrom(fields[i])]) IN
    IF converted.ok THEN Ok([fields |-> converted.val], converted.calls)
    ELSE converted

\* `SerdeArrowSchema::to_arrow2_fields(&self)`
to_arrow2_fields(schema) ==
    Collect([i \in 1..Len(schema.fields) |-> FieldTryFrom(schema.fields[i])])

\* the schema tracer behind `SerdeArrowSchema::from_type::<T>`: the field a
\* member of type T named `name` is traced to
RECURSIVE TraceField(_, _)
TraceField(name, T) ==
    LET leaf(kind) == [data_type |-> Generic(kind), name |-> name, strategy |-> None,
                       children |-> <<>>, nullable |-> FALSE]
    IN  CASE T.Type = "f64" -> leaf("F64")
          [] T.Type = "String" -> leaf("LargeUtf8")
          [] T.Type = "Vec" ->
                [leaf("LargeList") EXCEPT !.children = <<TraceField("element", T.item)>>]
          [] T.Type = "Option" -> [TraceField(name, T.inner) EXCEPT !.nullable = TRUE]
          [] T.Type = "Struct" ->
                [leaf("Struct") EXCEPT !.children =
                    [i \in 1..Len(T.fields) |->
                        TraceField(T.fields[i].name, T.fields[i].type)]]

\* `SerdeArrowSchema::from_type::<T>(options)`: the fields of the root type are
\* extracted as the schema's fields; a root that is a bare option has none
SerdeArrowSchemaFromType(T) ==
    IF T.Type = "Option"
      THEN Err(Error("top-level options are not supported", ""), 0)
      ELSE Ok([fields |-> TraceField("$", T).children], 0)

\* from_type with a failed derivation taken as a schema of no fields
from_type_or_default(T) ==
    LET schema == SerdeArrowSchemaFromType(T) IN
    IF ~schema.ok THEN to_arrow2_fields([fields |-> <<>>]) ELSE to_arrow2_fields(schema.val)

\* `<Vec<Field> as SchemaLike>::from_type::<T>(options)`
from_type(T) ==
    LET schema == SerdeArrowSchemaFromType(T) IN
    IF ~schema.ok THEN schema ELSE to_arrow2_fields(schema.val)

-----------------------------------------------------------------------------
(* The inputs the operations are applied to *)

\* longest sequence of fields (members, variants, children, columns) enumerated
MaxLen == 2

\* longest chain of conversions applied to one input
MaxOps == 2

\* the nesting depth taken as the recursion limit of a conversion; the schema
\* trees below are enumerated up to one level deeper than it
MaxDepth == 3

SeqsUpTo(S, n) == UNION {[1..k -> S] : k \in 0..n}

Tz == {None, Some("UTC")}

BField(name, data_type, is_nullable, metadata) ==
    [name |-> name, data_type |-> data_type, is_nullable |-> is_nullable,
     metadata |-> metadata]

OtherMetadata == [k \in {"other"} |-> "kept by the caller"]

Metadatas ==
    { EmptyMetadata,
      [k \in {STRATEGY_KEY} |-> "UtcStrAsDate64"],
      [k \in {STRATEGY_KEY} |-> "Bogus"],
      OtherMetadata,
      [k \in {STRATEGY_KEY, "other"} |-> IF k = "other" THEN "x" ELSE "TupleAsStruct"] }

Decimals ==
    { [DataType |-> "Decimal", precision |-> p, scale |-> s] :
        p \in {0, 38, 255, 256, 300}, s \in {0, 2, 127, 128, 300} }

LeafDataTypes ==
    { [DataType |-> "Int32"], [DataType |-> "Utf8"], [DataType |-> "Date64"],
      [DataType |-> "Binary"] }
    \cup Decimals
    \cup { [DataType |-> "Time64", unit |-> [TimeUnit |-> u]] :
             u \in {"Second", "Millisecond", "Microsecond", "Nanosecond"} }
    \cup { [DataType |-> "Timestamp", unit |-> [TimeUnit |-> u], tz |-> tz] :
             u \in {"Second", "Nanosecond"}, tz \in Tz }

\* fields used as members, variants, elements and entries
ChildFields ==
    { BField("x", [DataType |-> "Int32"], FALSE, EmptyMetadata),
      BField("y", [DataType |-> "Utf8"], TRUE, OtherMetadata),
      BField("d", [DataType |-> "Date64"], TRUE, [k \in {STRATEGY_KEY} |-> "UtcStrAsDate64"]),
      BField("p", [DataType |-> "Decimal", precision |-> 256, scale |-> 0], FALSE, EmptyMetadata),
      BField("t", [DataType |-> "Time64", unit |-> [TimeUnit |-> "Second"]], FALSE, EmptyMetadata) }

EntriesField ==
    BField("entries",
           [DataType |-> "Struct",
            fields |-> << BField("key", [DataType |-> "Utf8"], FALSE, EmptyMetadata),
                          BField("value", [DataType |-> "Int32"], TRUE, EmptyMetadata) >>],
           FALSE, EmptyMetadata)

IntegerTypes == { [IntegerType |-> "Int32"], [IntegerType |-> "UInt8"] }

\* the nested data types over the fields of C, with at most n members or variants
NestedDataTypes(C, n) ==
    { [DataType |-> k, field |-> c] : k \in {"List", "LargeList"}, c \in C }
    \cup { [DataType |-> "Struct", fields |-> fs] : fs \in SeqsUpTo(C, n) }
    \cup { [DataType |-> "Map", field |-> c, keys_sorted |-> b] :
             c \in C \cup {EntriesField}, b \in BOOLEAN }
    \cup { [DataType |-> "Union", fields |-> fs, field_indices |-> ids, mode |-> [UnionMode |-> m]] :
             fs \in SeqsUpTo(C, n), ids \in {None, Some(<<0>>)}, m \in {"Dense", "Sparse"} }
    \cup { [DataType |-> "Dictionary", int_type |-> i, data_type |-> c.data_type, sorted |-> b] :
             i \in IntegerTypes, c \in C, b \in BOOLEAN }

\* nested fields with one level of nesting, used as children one level up
NestedFields ==
    { BField("n", dt, FALSE, EmptyMetadata) : dt \in NestedDataTypes(ChildFields, 1) }

\* fields nested n levels below the field itself: a chain of lists and
\* one-member structs over a leaf that converts (Int32) or does not (Time64 in
\* seconds)
RECURSIVE DeepFields(_)
DeepFields(n) ==
    IF n = 0
    THEN { BField("x", [DataType |-> "Int32"], FALSE, EmptyMetadata),
           BField("t", [DataType |-> "Time64", unit |-> [TimeUnit |-> "Second"]],
                  FALSE, EmptyMetadata) }
    ELSE { BField("deep", [DataType |-> "List", field |-> c], FALSE, EmptyMetadata) :
             c \in DeepFields(n - 1) }
         \cup { BField("deep", [DataType |-> "Struct", fields |-> <<c>>], FALSE, EmptyMetadata) :
                  c \in DeepFields(n - 1) }

Fields ==
    UNION { DeepFields(n) : n \in 0..MaxDepth }
    \cup
    { BField("a", dt, n, m) :
        dt \in LeafDataTypes \cup NestedDataTypes(ChildFields, MaxLen),
        n \in BOOLEAN, m \in Metadatas }
    \cup { BField("b", dt, TRUE, EmptyMetadata) : dt \in NestedDataTypes(NestedFields, 1) }

GField(name, data_type, nullable, strategy, children) ==
    [data_type |-> data_type, name |-> name, strategy |-> strategy,
     children |-> children, nullable |-> nullable]

Strategies == {None, Some([Strategy |-> "UtcStrAsDate64"]), Some([Strategy |-> "MapAsStruct"])}

LeafGenericDataTypes ==
    { Generic("I32"), Generic("Utf8"), Generic("Date64"), Generic("Null") }
    \cup { [GenericDataType |-> "Decimal128", precision |-> p, scale |-> s] :
             p \in {0, 38, 255}, s \in {-128, -1, 0, 2, 127} }
    \cup { [GenericDataType |-> "Time64", unit |-> [GenericTimeUnit |-> u]] :
             u \in {"Second", "Millisecond", "Microsecond", "Nanosecond"} }
    \cup { [GenericDataType |-> "Timestamp", unit |-> [GenericTimeUnit |-> u], tz |-> tz] :
             u \in {"Millisecond", "Microsecond"}, tz \in Tz }

\* canonical fields used as children
GenericChildren ==
    { GField("", Generic("I32"), FALSE, None, <<>>),
      GField("", Generic("Utf8"), FALSE, None, <<>>),
      GField("key", Generic("U8"), FALSE, None, <<>>),
      GField("value", Generic("LargeUtf8"), TRUE, Some([Strategy |-> "UtcStrAsDate64"]), <<>>),
      GField("n", [GenericDataType |-> "Decimal128", precision |-> 5, scale |-> -1],
             FALSE, None, <<>>) }

NestedKinds == {"List", "LargeList", "Struct", "Map", "Union", "Dictionary"}

\* canonical fields with one level of nesting, used as children one level up
NestedGenericFields ==
    { GField("n", Generic(k), FALSE, None, cs) :
        k \in NestedKinds, cs \in SeqsUpTo(GenericChildren, 1) }
    \cup { GField("n", Generic("Dictionary"), FALSE, None, <<k, v>>) :
             k \in GenericChildren, v \in GenericChildren }

\* canonical fields nested n levels below the field itself: a chain of lists
\* and one-member structs over a leaf that converts (I32) or does not (Time64
\* in seconds)
RECURSIVE DeepGenericFields(_)
DeepGenericFields(n) ==
    IF n = 0
    THEN { GField("x", Generic("I32"), FALSE, None, <<>>),
           GField("t", [GenericDataType |-> "Time64", unit |-> [GenericTimeUnit |-> "Second"]],
                  FALSE, None, <<>>) }
    ELSE { GField("deep", Generic(k), FALSE, None, <<c>>) :
             k \in {"List", "Struct"}, c \in DeepGenericFields(n - 1) }

\* canonical fields, valid or not: any number of children up to MaxLen + 1
GenericFields ==
    UNION { DeepGenericFields(n) : n \in 0..MaxDepth }
    \cup
    { GField("a", dt, n, st, <<>>) :
        dt \in LeafGenericDataTypes, n \in BOOLEAN, st \in Strategies }
    \cup { GField("a", Generic(k), n, st, cs) :
             k \in NestedKinds, n \in BOOLEAN, st \in {None, Some([Strategy |-> "MapAsStruct"])},
             cs \in SeqsUpTo(GenericChildren, MaxLen + 1) }
    \cup { GField("a", Generic("I32"), FALSE, None, <<c>>) : c \in GenericChildren }
    \cup { GField("b", Generic(k), TRUE, None, <<c>>) :
             k \in NestedKinds \ {"Dictionary"}, c \in NestedGenericFields }
    \cup { GField("b", Generic("Dictionary"), TRUE, None, <<k, c>>) :
             k \in GenericChildren, c \in NestedGenericFields }

\* the columns of a backend schema
ColumnFields ==
    ChildFields \cup { BField("n", [DataType |-> "List", field |-> c], TRUE, EmptyMetadata) :
                         c \in ChildFields }

\* the columns of a canonical schema
GenericColumns ==
    GenericChildren \cup { GField("n", Generic("List"), TRUE, None, cs) :
                             cs \in SeqsUpTo(GenericChildren, 1) }
                    \cup { GField("t", [GenericDataType |-> "Time64",
                                        unit |-> [GenericTimeUnit |-> "Second"]],
                                  FALSE, None, <<>>) }

Distribution ==
    [Type |-> "Struct",
     fields |-> << [name |-> "samples", type |-> [Type |-> "Vec", item |-> [Type |-> "f64"]]],
                   [name |-> "statistic", type |-> [Type |-> "String"]] >>]

Members ==
    { [name |-> "samples", type |-> [Type |-> "Vec", item |-> [Type |-> "f64"]]],
      [name |-> "statistic", type |-> [Type |-> "String"]],
      [name |-> "distribution", type |-> [Type |-> "Option", inner |-> Distribution]],
      [name |-> "weight", type |-> [Type |-> "Option", inner |-> [Type |-> "f64"]]] }

StructTypes == { [Type |-> "Struct", fields |-> fs] : fs \in SeqsUpTo(Members, MaxLen) }

\* the types `from_type` is called with: structs and bare top-level options
Types == StructTypes \cup { [Type |-> "Option", inner |-> T] : T \in StructTypes }

-----------------------------------------------------------------------------
(* The conversions as steps: `input` is the value the first conversion is     *)
(* applied to, ops the conversions applied so far, hist[i] what the i-th       *)
(* returned. Each conversion applies to the value the previous one returned.   *)

\* what an operation returns on success
Returns ==
    [decode |-> "GenericField", encode |-> "Field",
     from_arrow2_fields |-> "SerdeArrowSchema", to_arrow2_fields |-> "Vec<Field>",
     from_type |-> "Vec<Field>"]

\* the value the next conversion applies to
Cur ==
    IF ops = <<>> THEN input
    ELSE IF hist[Len(hist)].ok
      THEN [is |-> Returns[ops[Len(ops)]], val |-> hist[Len(hist)].val]
      ELSE [is |-> "Error", val |-> hist[Len(hist)].err]

Apply(op, result) ==
    /\ Len(ops) < MaxOps
    /\ ops' = Append(ops, op)
    /\ hist' = Append(hist, result)
    /\ UNCHANGED input

Init ==
    /\ \/ \E x \in Fields : input = [is |-> "Field", val |-> x]
       \/ \E y \in GenericFields : input = [is |-> "GenericField", val |-> y]
       \/ \E xs \in SeqsUpTo(ColumnFields, MaxLen) : input = [is |-> "Vec<Field>", val |-> xs]
       \/ \E ys \in SeqsUpTo(GenericColumns, MaxLen) :
            input = [is |-> "SerdeArrowSchema", val |-> [fields |-> ys]]
       \/ \E T \in Types : input = [is |-> "Type", val |-> T]
    /\ ops = <<>>
    /\ hist = <<>>

Decode ==
    /\ Cur.is = "Field"
    /\ Apply("decode", GenericFieldTryFrom(Cur.val))

Encode ==
    /\ Cur.is = "GenericField"
    /\ Apply("encode", FieldTryFrom(Cur.val))

FromArrow2Fields ==
    /\ Cur.is = "Vec<Field>"
    /\ Apply("from_arrow2_fields", from_arrow2_fields(Cur.val))

ToArrow2Fields ==
    /\ Cur.is = "SerdeArrowSchema"
    /\ Apply("to_arrow2_fields", to_arrow2_fields(Cur.val))

FromType ==
    /\ Cur.is = "Type"
    /\ Apply("from_type", from_type(Cur.val))

Next ==
    \/ Decode
    \/ Encode
    \/ FromArrow2Fields
    \/ ToArrow2Fields
    \/ FromType

Spec == Init /\ [][Next]_vars

-----------------------------------------------------------------------------
(* Properties *)

Steps == 1..Len(ops)

\* the value the i-th conversion was applied to
Arg(i) == IF i = 1 THEN input.val ELSE hist[i - 1].val

\* the i-th conversion is `op`
Is(i, op) == i \in Steps /\ ops[i] = op

\* the i-th conversion decoded a backend field successfully and the next one
\* encoded what it returned
ReEncoded(i) == Is(i, "decode") /\ hist[i].ok /\ Is(i + 1, "encode")

\* the i-th conversion encoded a canonical field successfully and the next one
\* decoded what it returned
ReDecoded(i) == Is(i, "encode") /\ hist[i].ok /\ Is(i + 1, "decode")

RECURSIVE ManagedField(_)
RECURSIVE ManagedDataType(_)

\* a backend field without the metadata keys other than the reserved one, at
\* every level of nesting
ManagedField(f) ==
    [f EXCEPT !.metadata = [k \in DOMAIN f.metadata \cap {STRATEGY_KEY} |-> f.metadata[k]],
              !.data_type = ManagedDataType(f.data_type)]

ManagedDataType(dt) ==
    CASE dt.DataType \in {"List", "LargeList", "Map"} ->
            [dt EXCEPT !.field = ManagedField(dt.field)]
      [] dt.DataType \in {"Struct", "Union"} ->
            [dt EXCEPT !.fields = [j \in 1..Len(dt.fields) |-> ManagedField(dt.fields[j])]]
      [] dt.DataType = "Dictionary" ->
            [dt EXCEPT !.data_type = ManagedDataType(dt.data_type)]
      [] OTHER -> dt

\* C1: for every backend field x that decode accepts, encode(decode(x)) succeeds
\* and equals x in name, nullability, data type with all its parameters and
\* nested fields in order, and the strategy metadata entry, ignoring only the
\* metadata keys other than the reserved one.
C1_EncodeDecodeRoundTrip ==
    \A i \in Steps :
        ReEncoded(i) =>
            /\ hist[i + 1].ok
            /\ ManagedField(hist[i + 1].val) = ManagedField(Arg(i))

\* C2: for every canonical field y that passes validate() and that encode
\* accepts, decode(encode(y)) succeeds and equals y in every component of every
\* node, the key and value children of a Dictionary included.
C2_DecodeEncodeRoundTrip ==
    \A i \in Steps :
        (ReDecoded(i) /\ validate(Arg(i)).ok) =>
            /\ hist[i + 1].ok
            /\ hist[i + 1].val = Arg(i)

\* C3: decode of a backend Map whose keys-sorted flag is true fails; a Map with
\* keys-sorted = false decodes to a canonical Map with one entries child; encode
\* always produces keys-sorted = false.
C3_SortedMapsUnsupported ==
    \A i \in Steps :
        /\ (Is(i, "decode") /\ Arg(i).data_type.DataType = "Map") =>
              /\ Arg(i).data_type.keys_sorted => ~hist[i].ok
              /\ hist[i].ok =>
                    /\ hist[i].val.data_type = Generic("Map")
                    /\ Len(hist[i].val.children) = 1
        /\ (Is(i, "encode") /\ hist[i].ok /\ hist[i].val.data_type.DataType = "Map") =>
              ~hist[i].val.data_type.keys_sorted

\* C4: encode of a canonical List, LargeList or Map with a child count other
\* than 1, or of a Dictionary with a child count other than 2, fails.
C4_EncodeRejectsArityViolation ==
    \A i \in Steps :
        ( /\ Is(i, "encode")
          /\ Arg(i).data_type.GenericDataType \in {"List", "LargeList", "Map", "Dictionary"}
          /\ ~ArityOk(Arg(i).data_type.GenericDataType, Len(Arg(i).children)) )
        => ~hist[i].ok

\* C5: decode of a backend Decimal(p, s) fails when p > 255 or s > 127, and
\* otherwise (for a field that carries no strategy entry, which is decoded
\* separately) succeeds with canonical Decimal128(p, s), the same numbers;
\* encode of a canonical Decimal128(p, s) fails exactly when s < 0 and otherwise
\* yields backend Decimal(p, s); an accepted backend decimal re-encodes to the
\* identical decimal.
C5_DecimalMapping ==
    \A i \in Steps :
        /\ (Is(i, "decode") /\ Arg(i).data_type.DataType = "Decimal") =>
              LET p == Arg(i).data_type.precision
                  s == Arg(i).data_type.scale
              IN  /\ (p > 255 \/ s > 127) => ~hist[i].ok
                  /\ (p <= 255 /\ s <= 127 /\ STRATEGY_KEY \notin DOMAIN Arg(i).metadata)
                        => hist[i].ok
                  /\ hist[i].ok =>
                        hist[i].val.data_type =
                            [GenericDataType |-> "Decimal128", precision |-> p, scale |-> s]
        /\ (Is(i, "encode") /\ Arg(i).data_type.GenericDataType = "Decimal128") =>
              LET p == Arg(i).data_type.precision
                  s == Arg(i).data_type.scale
              IN  /\ ~hist[i].ok <=> s < 0
                  /\ hist[i].ok =>
                        hist[i].val.data_type =
                            [DataType |-> "Decimal", precision |-> p, scale |-> s]
        /\ (ReEncoded(i) /\ Arg(i).data_type.DataType = "Decimal") =>
              /\ hist[i + 1].ok
              /\ hist[i + 1].val.data_type = Arg(i).data_type

\* C5 witness: Decimal(38, 2) was decoded and re-encoded to the same decimal
C5_Witness ==
    /\ ops = <<"decode", "encode">>
    /\ input.val.data_type = [DataType |-> "Decimal", precision |-> 38, scale |-> 2]
    /\ hist[1].ok
    /\ hist[2].ok
    /\ hist[2].val.data_type = input.val.data_type

\* C6: decode of a backend Union fails if it carries explicit variant indices or
\* if its mode is not dense; a decoded Union has the decoded variant fields as
\* children, in the same order and of the same count, and encoding it yields a
\* dense union with no index array and the same variant fields in the same
\* order.
C6_UnionStrictness ==
    \A i \in Steps :
        /\ (Is(i, "decode") /\ Arg(i).data_type.DataType = "Union") =>
              LET dt == Arg(i).data_type IN
              /\ (IsSome(dt.field_indices) \/ dt.mode # [UnionMode |-> "Dense"])
                    => ~hist[i].ok
              /\ hist[i].ok =>
                    /\ hist[i].val.data_type = Generic("Union")
                    /\ Len(hist[i].val.children) = Len(dt.fields)
                    /\ \A j \in 1..Len(dt.fields) :
                          /\ hist[i].val.children[j].name = dt.fields[j].name
                          /\ GenericFieldTryFrom(dt.fields[j]).ok
                          /\ hist[i].val.children[j] = GenericFieldTryFrom(dt.fields[j]).val
        /\ (ReEncoded(i) /\ Arg(i).data_type.DataType = "Union") =>
              /\ hist[i + 1].ok
              /\ hist[i + 1].val.data_type.DataType = "Union"
              /\ hist[i + 1].val.data_type.mode = [UnionMode |-> "Dense"]
              /\ hist[i + 1].val.data_type.field_indices = None
              /\ ManagedDataType(hist[i + 1].val.data_type).fields
                    = ManagedDataType(Arg(i).data_type).fields

\* the canonical integer kind of each backend dictionary key type
KeyKind ==
    [Int8 |-> "I8", Int16 |-> "I16", Int32 |-> "I32", Int64 |-> "I64",
     UInt8 |-> "U8", UInt16 |-> "U16", UInt32 |-> "U32", UInt64 |-> "U64"]

\* C7: decode of a backend Dictionary marked sorted fails; a decoded Dictionary
\* has exactly two children, child [0] a zero-child field of the canonical
\* integer kind matching the backend key type and child [1] the decoded value
\* type; encode of a canonical Dictionary whose key child is not of an integer
\* kind fails, and a successful encode produces sorted = false.
C7_DictionaryRestrictions ==
    \A i \in Steps :
        /\ (Is(i, "decode") /\ Arg(i).data_type.DataType = "Dictionary") =>
              LET dt == Arg(i).data_type
                  value == GenericFieldTryFrom(FieldNew("", dt.data_type, FALSE))
              IN  /\ dt.sorted => ~hist[i].ok
                  /\ hist[i].ok =>
                        /\ hist[i].val.data_type = Generic("Dictionary")
                        /\ Len(hist[i].val.children) = 2
                        /\ hist[i].val.children[1].children = <<>>
                        /\ hist[i].val.children[1].data_type
                              = Generic(KeyKind[dt.int_type.IntegerType])
                        /\ value.ok
                        /\ hist[i].val.children[2] = value.val
        /\ (Is(i, "encode") /\ Arg(i).data_type.GenericDataType = "Dictionary") =>
              /\ ( /\ Len(Arg(i).children) > 0
                    /\ Arg(i).children[1].data_type.GenericDataType
                          \notin {KeyKind[k] : k \in DOMAIN KeyKind}
                  ) => ~hist[i].ok
              /\ hist[i].ok => ~hist[i].val.data_type.sorted

\* C7 witness: an unsorted Dictionary with Int32 keys and Utf8 values was
\* decoded to a canonical Dictionary of two children and encoded again
C7_Witness ==
    /\ ops = <<"decode", "encode">>
    /\ input.val.data_type =
          [DataType |-> "Dictionary", int_type |-> [IntegerType |-> "Int32"],
           data_type |-> [DataType |-> "Utf8"], sorted |-> FALSE]
    /\ hist[1].ok
    /\ Len(hist[1].val.children) = 2
    /\ hist[1].val.children[1].data_type = Generic("I32")
    /\ hist[2].ok
    /\ ~hist[2].val.data_type.sorted

\* the strings that name a strategy
RecognizedStrategies == {StrategyToString(st) : st \in Strategy}

\* C8: decode yields strategy = none when the reserved key is absent and the
\* parsed Strategy when the key holds a recognized string, and fails when the
\* key holds an unrecognized string; encode writes the serialized strategy under
\* the reserved key only when the canonical field has a strategy and no such
\* entry otherwise; re-encoding a decoded field reproduces the same reserved-key
\* entry.
C8_StrategyMetadata ==
    \A i \in Steps :
        /\ Is(i, "decode") =>
              LET entry == MetadataGet(Arg(i).metadata, STRATEGY_KEY) IN
              /\ (hist[i].ok /\ entry = None) => hist[i].val.strategy = None
              /\ (hist[i].ok /\ entry # None) =>
                    /\ Unwrap(entry) \in RecognizedStrategies
                    /\ IsSome(hist[i].val.strategy)
                    /\ Unwrap(hist[i].val.strategy) \in Strategy
                    /\ StrategyToString(Unwrap(hist[i].val.strategy)) = Unwrap(entry)
              /\ (entry # None /\ Unwrap(entry) \notin RecognizedStrategies) => ~hist[i].ok
        /\ (Is(i, "encode") /\ hist[i].ok) =>
              LET entry == MetadataGet(hist[i].val.metadata, STRATEGY_KEY) IN
              /\ IsSome(Arg(i).strategy) =>
                    entry = Some(StrategyToString(Unwrap(Arg(i).strategy)))
              /\ Arg(i).strategy = None => entry = None
        /\ ReEncoded(i) =>
              /\ hist[i + 1].ok
              /\ MetadataGet(hist[i + 1].val.metadata, STRATEGY_KEY)
                    = MetadataGet(Arg(i).metadata, STRATEGY_KEY)

\* C8 witness: a Date64 field with the reserved key set to UtcStrAsDate64 was
\* decoded to that strategy and re-encoded with the same entry
C8_Witness ==
    /\ ops = <<"decode", "encode">>
    /\ input.val.data_type = [DataType |-> "Date64"]
    /\ MetadataGet(input.val.metadata, STRATEGY_KEY) = Some("UtcStrAsDate64")
    /\ hist[1].ok
    /\ hist[1].val.strategy = Some([Strategy |-> "UtcStrAsDate64"])
    /\ hist[2].ok
    /\ MetadataGet(hist[2].val.metadata, STRATEGY_KEY) = Some("UtcStrAsDate64")

\* the fields the arm of a backend data type converts, in order
DecodedChildren(dt) ==
    CASE dt.DataType \in {"List", "LargeList", "Map"} -> <<dt.field>>
      [] dt.DataType \in {"Struct", "Union"} -> dt.fields
      [] dt.DataType = "Dictionary" ->
            << FieldNew("", IntegerTypeToDataType(dt.int_type), FALSE),
               FieldNew("", dt.data_type, FALSE) >>
      [] OTHER -> <<>>

\* decode of x gets as far as converting the children of x
ReachesChildren(x) ==
    /\ MetadataGet(x.metadata, STRATEGY_KEY) \in {None} \cup {Some(r) : r \in RecognizedStrategies}
    /\ x.data_type.DataType = "Union" =>
          /\ x.data_type.field_indices = None
          /\ x.data_type.mode = [UnionMode |-> "Dense"]
    /\ x.data_type.DataType = "Dictionary" => ~x.data_type.sorted

\* the children the arm of a canonical field converts, in order: the element
\* of a list, the entries of a map, the members of a struct, the variants of a
\* union, the value of a dictionary
EncodedChildren(y) ==
    CASE y.data_type.GenericDataType \in {"List", "LargeList", "Map"} ->
            IF Len(y.children) > 0 THEN <<y.children[1]>> ELSE <<>>
      [] y.data_type.GenericDataType \in {"Struct", "Union"} -> y.children
      [] y.data_type.GenericDataType = "Dictionary" ->
            IF Len(y.children) > 1 THEN <<y.children[2]>> ELSE <<>>
      [] OTHER -> <<>>

\* results[j] is the first failure among the conversions `results`
FirstFailure(results, j) ==
    /\ j \in 1..Len(results)
    /\ ~results[j].ok
    /\ \A k \in 1..(j - 1) : results[k].ok

\* `result` is the failure of results[j], made after converting no child
\* beyond the j-th, with `own` conversions of the parent itself, and carries
\* no value
FailsWith(result, results, j, own) ==
    /\ ~result.ok
    /\ result.err = results[j].err
    /\ result.calls = own + SumCalls(results, j)
    /\ "val" \notin DOMAIN result

\* C9: in decode and encode, if the conversion of a child fails, the parent's
\* conversion fails with that same error and later siblings are not converted;
\* from_arrow2_fields and to_arrow2_fields return the error of the first failing
\* field in field order, and a result that is not a failure holds every field.
C9_FirstErrorWins ==
    \A i \in Steps :
        /\ (Is(i, "decode") /\ ReachesChildren(Arg(i))) =>
              LET cs == DecodedChildren(Arg(i).data_type)
                  rs == [j \in 1..Len(cs) |-> GenericFieldTryFrom(cs[j])]
              IN  \A j \in 1..Len(cs) :
                      FirstFailure(rs, j) => FailsWith(hist[i], rs, j, 1)
        /\ Is(i, "encode") =>
              LET cs == EncodedChildren(Arg(i))
                  rs == [j \in 1..Len(cs) |-> FieldTryFrom(cs[j])]
              IN  \A j \in 1..Len(cs) :
                      FirstFailure(rs, j) => FailsWith(hist[i], rs, j, 1)
        /\ Is(i, "from_arrow2_fields") =>
              LET rs == [j \in 1..Len(Arg(i)) |-> GenericFieldTryFrom(Arg(i)[j])]
              IN  /\ \A j \in 1..Len(rs) :
                        FirstFailure(rs, j) => FailsWith(hist[i], rs, j, 0)
                  /\ hist[i].ok => Len(hist[i].val.fields) = Len(Arg(i))
        /\ Is(i, "to_arrow2_fields") =>
              LET rs == [j \in 1..Len(Arg(i).fields) |-> FieldTryFrom(Arg(i).fields[j])]
              IN  /\ \A j \in 1..Len(rs) :
                        FirstFailure(rs, j) => FailsWith(hist[i], rs, j, 0)
                  /\ hist[i].ok => Len(hist[i].val) = Len(Arg(i).fields)

\* C9 witness: from_arrow2_fields was given a field whose time unit cannot be
\* converted followed by a field whose decimal cannot, and returned the error of
\* the first without converting the second
C9_Witness ==
    /\ ops = <<"from_arrow2_fields">>
    /\ Len(input.val) = 2
    /\ input.val[1].data_type = [DataType |-> "Time64", unit |-> [TimeUnit |-> "Second"]]
    /\ input.val[2].data_type = [DataType |-> "Decimal", precision |-> 256, scale |-> 0]
    /\ ~hist[1].ok
    /\ hist[1].err = Error("Invalid time unit for Time64", "Second")
    /\ hist[1].calls = 1

\* C10: from_type for a vector of backend fields fails, returning an error and
\* no fields, when the type is a bare top-level optional; a failure of the
\* derivation of the canonical schema is returned as it is, before any field is
\* projected to a backend field.
C10_FromTypeFailure ==
    \A i \in Steps :
        Is(i, "from_type") =>
            LET schema == SerdeArrowSchemaFromType(Arg(i)) IN
            /\ Arg(i).Type = "Option" =>
                  /\ ~hist[i].ok
                  /\ "val" \notin DOMAIN hist[i]
            /\ ~schema.ok => hist[i] = Err(schema.err, 0)

\* C10 witness: from_type was called with Option<Distribution> and failed
C10_Witness ==
    /\ ops = <<"from_type">>
    /\ input.val = [Type |-> "Option", inner |-> Distribution]
    /\ ~hist[1].ok
    /\ hist[1].calls = 0

\* the greatest of a finite set of naturals, 0 for the empty set
Max(S) ==
    IF S = {} THEN 0 ELSE CHOOSE m \in S : \A n \in S : n <= m

\* the depth of the nested try_from calls that decode `field`: the call on the
\* field itself and, below it, the deepest of the calls its arm makes on its
\* children, which stop with the first child that fails
RECURSIVE DecodeDepth(_)
DecodeDepth(field) ==
    IF ~ReachesChildren(field) THEN 1
    ELSE LET children == DecodedChildren(field.data_type)
             results == [j \in 1..Len(children) |-> GenericFieldTryFrom(children[j])]
             made == IF FirstErr(results) = 0 THEN Len(children) ELSE FirstErr(results)
         IN  1 + Max({ DecodeDepth(children[j]) : j \in 1..made })

\* the depth of the nested try_from calls that encode `value`, likewise
RECURSIVE EncodeDepth(_)
EncodeDepth(value) ==
    LET children == EncodedChildren(value)
        results == [j \in 1..Len(children) |-> FieldTryFrom(children[j])]
        made == IF FirstErr(results) = 0 THEN Len(children) ELSE FirstErr(results)
    IN  1 + Max({ EncodeDepth(children[j]) : j \in 1..made })

\* the nesting depth of a backend field: 1 for a field of a primitive type
RECURSIVE FieldNesting(_)
FieldNesting(field) ==
    LET children == DecodedChildren(field.data_type) IN
    1 + Max({ FieldNesting(children[j]) : j \in 1..Len(children) })

\* the nesting depth of a canonical field: 1 for a field without children
RECURSIVE GenericFieldNesting(_)
GenericFieldNesting(value) ==
    1 + Max({ GenericFieldNesting(value.children[j]) : j \in 1..Len(value.children) })

\* C11: decode and encode guard against unbounded recursion: there is a fixed
\* nesting-depth limit (here MaxDepth) such that the conversion of a schema
\* tree nested deeper than the limit fails rather than recursing further, so
\* that the depth of the nested conversion calls never exceeds the limit,
\* however deep the input is nested.
C11_RecursionDepthGuard ==
    \A i \in Steps :
        /\ Is(i, "decode") =>
              /\ DecodeDepth(Arg(i)) <= MaxDepth
              /\ FieldNesting(Arg(i)) > MaxDepth => ~hist[i].ok
        /\ Is(i, "encode") =>
              /\ EncodeDepth(Arg(i)) <= MaxDepth
              /\ GenericFieldNesting(Arg(i)) > MaxDepth => ~hist[i].ok

====
